---- MODULE Spec2Model ----
(***************************************************************************)
(* OleMacroDetector.py: one scan of one file by five macro-detection       *)
(* strategies joined by an `or` chain, followed by one verdict line.       *)
(*                                                                         *)
(* The file under test and the environment of the scan (the two external   *)
(* tools, the olefile and oletools libraries, the zipfile module and the   *)
(* runtime's finalisation of unreferenced handles) are fixed at Init in    *)
(* the variable env; the remaining variables are the program's own state.  *)
(***************************************************************************)
EXTENDS Integers, Sequences, FiniteSets, TLC

VARIABLES
    env,        \* the file and the environment of this scan (never changes)
    pc,         \* position of the program
    started,    \* strategies called so far, in call order (indices 1..5)
    results,    \* their return values, in the same order
    caught,     \* strategies in which an except clause ran at function level
    has_macros, \* main's local, meaningful once pc is "print" or "done"
    printed,    \* lines written to standard output
    open,       \* handles opened and not released
    opened,     \* every handle opened during the scan
    zi,         \* scan_zip_for_macros: index of the entry the loop is at
    readLog,    \* scan_zip_for_macros: entries on which z.open was attempted
    log         \* logging.debug records emitted

vars == <<env, pc, started, results, caught, has_macros, printed,
          open, opened, zi, readLog, log>>

----------------------------------------------------------------------------
(* Bounds of the model. *)

\* longest archive (number of entries) drawn for the whole-scan specification
MaxEntries == 2
\* longest archive drawn for the specification of scan_zip_for_macros alone
MaxZipEntries == 3

----------------------------------------------------------------------------
(* Text: a string is a sequence of one-character strings. *)

UpperCase == <<"A","B","C","D","E","F","G","H","I","J","K","L","M",
               "N","O","P","Q","R","S","T","U","V","W","X","Y","Z">>
LowerCase == <<"a","b","c","d","e","f","g","h","i","j","k","l","m",
               "n","o","p","q","r","s","t","u","v","w","x","y","z">>

\* str.lower on one character
LowerChar(c) ==
    IF \E i \in 1..Len(UpperCase) : UpperCase[i] = c
    THEN LowerCase[CHOOSE i \in 1..Len(UpperCase) : UpperCase[i] = c]
    ELSE c

\* str.lower
Lower(s) == [i \in 1..Len(s) |-> LowerChar(s[i])]

\* sub in s
Contains(sub, s) ==
    \E i \in 1..(Len(s) - Len(sub) + 1) : SubSeq(s, i, i + Len(sub) - 1) = sub

\* str.split() on whitespace: the maximal runs of non-blank characters
RECURSIVE SplitFrom(_, _, _)
SplitFrom(s, i, tok) ==
    IF i > Len(s)
    THEN IF tok = <<>> THEN <<>> ELSE <<tok>>
    ELSE IF s[i] = " "
         THEN IF tok = <<>> THEN SplitFrom(s, i + 1, <<>>)
                            ELSE <<tok>> \o SplitFrom(s, i + 1, <<>>)
         ELSE SplitFrom(s, i + 1, Append(tok, s[i]))

\* line.lstrip().split(): leading blanks produce no token either way
Split(line) == SplitFrom(line, 1, <<>>)

----------------------------------------------------------------------------
(* The file and the environment of a scan. *)

\* olefile.MAGIC, the compound-file signature
MAGIC == <<208, 207, 17, 224, 161, 177, 26, 225>>

\* the first n items of s (file.read(n) at offset 0)
Take(s, n) == SubSeq(s, 1, IF n < Len(s) THEN n ELSE Len(s))

\* What `olevba -t path` may write to its standard output.
TriageOutputs ==
    { <<"v","b"," ","a">>,
      <<"V","B","A">>,
      <<"A","u","t","o","E","x","e","c">>,
      <<"N","o"," ","M","a","c","r","o","s">> }

\* What `oledump.py path` may write: a sequence of lines.
OledumpOutputs ==
    { <<>>,
      << <<"m">>, <<" ","1",":"," ","9"," ","m">> >>,
      << <<"E","r","r">>, <<" ","2",":"," ","M"," ","9">> >> }

\* An external tool: missing from the PATH, never answering, or exiting with
\* status 0 ("ok") or with another status ("abnormal") after writing stdout.
ToolEnvs(outputs) ==
    { [status |-> s, stdout |-> <<>>] : s \in {"absent", "hang"} }
    \cup { [status |-> s, stdout |-> o] : s \in {"ok", "abnormal"}, o \in outputs }

\* The olefile library on the path: isOleFile raises, answers, OleFileIO
\* raises on a corrupt directory, and the streams the directory holds.
OleEnvs ==
    { [isOle |-> "raises", open |-> "raises", streams |-> {}],
      [isOle |-> "no", open |-> "raises", streams |-> {}],
      [isOle |-> "yes", open |-> "raises", streams |-> {}] }
    \cup { [isOle |-> "yes", open |-> "ok", streams |-> st] :
              st \in SUBSET {"workbook", "_VBA_PROJECT_CUR"} }

\* VBA_Parser on some content: the constructor raises, detect_macros raises,
\* or detect_macros answers.
VbaEnvs == {"open_raises", "detect_raises", "macros", "clean"}

\* An archive entry: its bytes, whether z.open(name) and a read to the end
\* succeed, and what VBA_Parser does with its content.
Entry(d, r, p) == [data |-> d, read |-> r, parser |-> p]

XmlPart      == Entry(<<60, 63, 120, 109, 108>>, "ok", "open_raises")
NestedDocm   == Entry(<<80, 75, 3, 4, 20, 0, 6, 0, 8>>, "ok", "macros")
ShortMagic   == Entry(Take(MAGIC, 7), "ok", "open_raises")
OleNoOpen    == Entry(MAGIC \o <<0>>, "open_fails", "macros")
OleBadCrc    == Entry(MAGIC \o <<0>>, "full_read_fails", "macros")
OleNoParse   == Entry(MAGIC, "ok", "open_raises")
OleDetectErr == Entry(MAGIC \o <<0>>, "ok", "detect_raises")
OleMacros    == Entry(MAGIC \o <<0>>, "ok", "macros")
OleClean     == Entry(MAGIC \o <<0>>, "ok", "clean")

EntryKinds == {XmlPart, NestedDocm, ShortMagic, OleNoOpen, OleBadCrc,
               OleNoParse, OleDetectErr, OleMacros, OleClean}

\* the kinds drawn for the whole-scan specification
MainEntryKinds == {XmlPart, OleDetectErr, OleMacros}

\* all sequences over S of length at most n
SeqsUpTo(S, n) == UNION { [1..k -> S] : k \in 0..n }

\* zipfile on the path: is_zipfile's answer, ZipFile(path) raising or not,
\* and the entries in namelist() order.
ZipEnvs(kinds, n) ==
    { [isZip |-> FALSE, open |-> "raises", entries |-> <<>>],
      [isZip |-> TRUE, open |-> "raises", entries |-> <<>>] }
    \cup { [isZip |-> TRUE, open |-> "ok", entries |-> es] : es \in SeqsUpTo(kinds, n) }

\* What the libraries do with a path that cannot be opened: isOleFile and
\* VBA_Parser raise, is_zipfile answers False.
MissingOle == [isOle |-> "raises", open |-> "raises", streams |-> {}]
MissingZip == [isZip |-> FALSE, open |-> "raises", entries |-> <<>>]

MkEnv(g, x, t, d, o, v, z, f) ==
    [given |-> g, exists |-> x, triage |-> t, oledump |-> d, ole |-> o,
     vba |-> v, zip |-> z, promptFinalize |-> f]

AbsentTool == [status |-> "absent", stdout |-> <<>>]

\* Environments of a whole scan: no argument given; a path that does not
\* exist; a readable file.
Envs ==
    { MkEnv(FALSE, FALSE, AbsentTool, AbsentTool, MissingOle, "open_raises",
            MissingZip, TRUE) }
    \cup { MkEnv(TRUE, FALSE, t, d, MissingOle, "open_raises", MissingZip, TRUE) :
              t \in ToolEnvs(TriageOutputs), d \in ToolEnvs(OledumpOutputs) }
    \cup { MkEnv(TRUE, TRUE, t, d, o, v, z, f) :
              t \in ToolEnvs(TriageOutputs), d \in ToolEnvs(OledumpOutputs),
              o \in OleEnvs, v \in VbaEnvs,
              z \in ZipEnvs(MainEntryKinds, MaxEntries), f \in BOOLEAN }

----------------------------------------------------------------------------
(* The program. *)

\* Handles: <<kind, entry index or 0, ordinal>>.
OleHandle         == <<"OleFileIO", 0, 0>>
ParserHandle(i)   == <<"VBA_Parser", i, 0>>
ArchiveHandle     == <<"ZipFile", 0, 0>>
EntryReader(i, n) == <<"ZipExtFile", i, n>>

\* A handle whose last reference is dropped without close(): the runtime
\* finalises it at once (reference counting) or leaves it open.
Leak(hs) == IF env.promptFinalize THEN {} ELSE hs

\* run_olevba_triage, lines 32-33: the keyword search on the lowered stdout
triage_found(stdout) ==
    LET output == Lower(stdout)
    IN  \/ Contains(<<"m","a","c","r","o","s">>, output)
        \/ Contains(<<"a","u","t","o","e","x","e","c">>, output)
        \/ Contains(<<"v","b","a">>, output)

\* run_oledump_check, lines 43-47: some line with more than one token has
\* the token "m" (lowered) in second place
oledump_found(lines) ==
    \E i \in 1..Len(lines) :
        /\ Len(Split(lines[i])) > 1
        /\ Lower(Split(lines[i])[2]) = <<"m">>

\* check_excel97_macros, line 55
excel97_found(streams) ==
    "workbook" \in streams /\ "_VBA_PROJECT_CUR" \in streams

\* The position after strategy k returned r, were the chain to go on
\* evaluating after a true operand (the value is then the last operand's).
AfterStrategy_NoShortCircuit(k, r) ==
    IF k = 5 THEN "print"
    ELSE <<"triage", "oledump", "excel97", "vba_parser", "scan_zip">>[k + 1]

\* main, lines 101-107: the `or` chain stops at the first true operand and
\* otherwise evaluates the next one, in the order written.
AfterStrategy(k, r) ==
    IF r \/ k = 5 THEN "print"
    ELSE <<"triage", "oledump", "excel97", "vba_parser", "scan_zip">>[k + 1]

\* The verdict line with the test of line 109 inverted.
VerdictLine_Inverted(h) == IF h THEN "NO_MACROS" ELSE "MACROS_PRESENT"

\* main, lines 109-112
VerdictLine(h) == IF h THEN "MACROS_PRESENT" ELSE "NO_MACROS"

\* Strategy k returns r to the `or` chain of main.
Return(k, r) ==
    /\ results' = Append(results, r)
    /\ pc' = AfterStrategy(k, r)
    /\ has_macros' = IF AfterStrategy(k, r) = "print" THEN r ELSE has_macros

TypeOK ==
    /\ env \in Envs \/ env.zip \in ZipEnvs(EntryKinds, MaxZipEntries)
    /\ pc \in {"start", "usage_error", "triage", "triage_wait", "oledump",
               "oledump_wait", "excel97", "vba_parser", "scan_zip", "zip_loop",
               "print", "done"}
    /\ started \in Seq(1..5) /\ results \in Seq(BOOLEAN)
    /\ caught \subseteq 1..5
    /\ has_macros \in BOOLEAN
    /\ printed \in Seq({"MACROS_PRESENT", "NO_MACROS"})
    /\ open \subseteq opened
    /\ zi \in 0..(Len(env.zip.entries) + 1)

Init ==
    /\ env \in Envs
    /\ pc = "start"
    /\ started = <<>>
    /\ results = <<>>
    /\ caught = {}
    /\ has_macros = FALSE
    /\ printed = <<>>
    /\ open = {}
    /\ opened = {}
    /\ zi = 0
    /\ readLog = <<>>
    /\ log = <<>>

\* main, lines 96-99: argparse exits with a usage error when the argument is
\* missing; the path itself is not examined.
ParseArgs ==
    /\ pc = "start"
    /\ pc' = IF env.given THEN "triage" ELSE "usage_error"
    /\ UNCHANGED <<env, started, results, caught, has_macros, printed,
                   open, opened, zi, readLog, log>>

\* run_olevba_triage, lines 27-31, 34-35: subprocess.run raises when the
\* executable is missing, and otherwise waits for the process with no timeout.
TriageCall ==
    /\ pc = "triage"
    /\ started' = Append(started, 1)
    /\ IF env.triage.status = "absent"
       THEN /\ caught' = caught \cup {1}
            /\ Return(1, FALSE)
       ELSE /\ pc' = "triage_wait"
            /\ UNCHANGED <<caught, results, has_macros>>
    /\ UNCHANGED <<env, printed, open, opened, zi, readLog, log>>

\* run_olevba_triage, lines 32-33: the process ended, with whatever exit
\* status; its stdout is searched.
TriageExit ==
    /\ pc = "triage_wait"
    /\ env.triage.status \in {"ok", "abnormal"}
    /\ Return(1, triage_found(env.triage.stdout))
    /\ UNCHANGED <<env, started, caught, printed, open, opened, zi, readLog, log>>

\* run_oledump_check, lines 38-42, 48-49
OledumpCall ==
    /\ pc = "oledump"
    /\ started' = Append(started, 2)
    /\ IF env.oledump.status = "absent"
       THEN /\ caught' = caught \cup {2}
            /\ Return(2, FALSE)
       ELSE /\ pc' = "oledump_wait"
            /\ UNCHANGED <<caught, results, has_macros>>
    /\ UNCHANGED <<env, printed, open, opened, zi, readLog, log>>

\* run_oledump_check, lines 43-47
OledumpExit ==
    /\ pc = "oledump_wait"
    /\ env.oledump.status \in {"ok", "abnormal"}
    /\ Return(2, oledump_found(env.oledump.stdout))
    /\ UNCHANGED <<env, started, caught, printed, open, opened, zi, readLog, log>>

\* check_excel97_macros, lines 51-58: the OleFileIO object is never closed.
check_excel97_macros ==
    /\ pc = "excel97"
    /\ started' = Append(started, 3)
    /\ IF env.ole.isOle = "raises"
       THEN /\ caught' = caught \cup {3}
            /\ Return(3, FALSE)
            /\ UNCHANGED <<open, opened>>
       ELSE IF env.ole.isOle = "no"
       THEN /\ Return(3, FALSE)
            /\ UNCHANGED <<caught, open, opened>>
       ELSE IF env.ole.open = "raises"
       THEN /\ caught' = caught \cup {3}
            /\ Return(3, FALSE)
            /\ UNCHANGED <<open, opened>>
       ELSE /\ opened' = opened \cup {OleHandle}
            /\ open' = open \cup Leak({OleHandle})
            /\ Return(3, excel97_found(env.ole.streams))
            /\ UNCHANGED caught
    /\ UNCHANGED <<env, printed, zi, readLog, log>>

\* run_vba_parser, lines 60-67: close() is reached only when detect_macros
\* returns.
run_vba_parser ==
    /\ pc = "vba_parser"
    /\ started' = Append(started, 4)
    /\ IF env.vba = "open_raises"
       THEN /\ caught' = caught \cup {4}
            /\ Return(4, FALSE)
            /\ UNCHANGED <<open, opened>>
       ELSE IF env.vba = "detect_raises"
       THEN /\ opened' = opened \cup {ParserHandle(0)}
            /\ open' = open \cup Leak({ParserHandle(0)})
            /\ caught' = caught \cup {4}
            /\ Return(4, FALSE)
       ELSE /\ opened' = opened \cup {ParserHandle(0)}
            /\ open' = open
            /\ Return(4, env.vba = "macros")
            /\ UNCHANGED caught
    /\ UNCHANGED <<env, printed, zi, readLog, log>>

\* What the body of the loop does with entry e (lines 76-89): "error" when
\* an exception reaches the inner except clause, "skip" when the magic bytes
\* differ, else what detect_macros answered.
EntryOutcome(e) ==
    IF e.read = "open_fails" THEN "error"
    ELSE IF Take(e.data, Len(MAGIC)) # MAGIC THEN "skip"
    ELSE IF e.read = "full_read_fails" THEN "error"
    ELSE IF e.parser \in {"open_raises", "detect_raises"} THEN "error"
    ELSE IF e.parser = "macros" THEN "macros" ELSE "clean"

\* The handles the body of the loop opens on entry i (lines 78, 81, 82).
EntryOpens(e, i) ==
    (IF e.read = "open_fails" THEN {} ELSE {EntryReader(i, 1)})
    \cup (IF e.read # "open_fails" /\ Take(e.data, Len(MAGIC)) = MAGIC
          THEN {EntryReader(i, 2)} ELSE {})
    \cup (IF EntryOutcome(e) \in {"macros", "clean"}
             \/ (EntryOutcome(e) = "error" /\ e.read = "ok"
                 /\ e.parser = "detect_raises")
          THEN {ParserHandle(i)} ELSE {})

\* Those of them on which close() is called (line 84).
EntryCloses(e, i) ==
    IF EntryOutcome(e) \in {"macros", "clean"} THEN {ParserHandle(i)} ELSE {}

\* The loop position after an exception on entry i of n, were the exception
\* to leave the loop.
AfterEntryError_Abort(i, n) == n + 1

\* Lines 87-89: the inner except clause logs and continues with the next entry.
AfterEntryError(i, n) == i + 1

\* scan_zip_for_macros, lines 70-74, 90-93
ScanZipEnter ==
    /\ pc = "scan_zip"
    /\ started' = Append(started, 5)
    /\ IF ~env.zip.isZip
       THEN /\ Return(5, FALSE)
            /\ UNCHANGED <<caught, open, opened, zi, log>>
       ELSE IF env.zip.open = "raises"
       THEN /\ caught' = caught \cup {5}
            /\ log' = Append(log, <<"Error opening ZIP file", 0>>)
            /\ Return(5, FALSE)
            /\ UNCHANGED <<open, opened, zi>>
       ELSE /\ opened' = opened \cup {ArchiveHandle}
            /\ open' = open \cup {ArchiveHandle}
            /\ zi' = 1
            /\ pc' = "zip_loop"
            /\ UNCHANGED <<caught, results, has_macros, log>>
    /\ UNCHANGED <<env, printed, readLog>>

\* scan_zip_for_macros, lines 75-89: one iteration of the loop; a true
\* answer returns from inside the with block, which closes the archive.
ZipEntry ==
    /\ pc = "zip_loop"
    /\ zi <= Len(env.zip.entries)
    /\ LET e == env.zip.entries[zi]
           out == EntryOutcome(e)
           kept == open \cup Leak(EntryOpens(e, zi) \ EntryCloses(e, zi))
           detected == IF e.read # "open_fails" /\ Take(e.data, Len(MAGIC)) = MAGIC
                       THEN <<  <<"OLE file detected", zi>> >> ELSE <<>>
       IN  /\ readLog' = Append(readLog, zi)
           /\ opened' = opened \cup EntryOpens(e, zi)
           /\ IF out = "macros"
              THEN /\ open' = kept \ {ArchiveHandle}
                   /\ log' = log \o detected
                   /\ Return(5, TRUE)
                   /\ UNCHANGED zi
              ELSE /\ open' = kept
                   /\ log' = log \o detected \o
                             (IF out = "error"
                              THEN << <<"Failed to read", zi>> >> ELSE <<>>)
                   /\ zi' = IF out = "error"
                            THEN AfterEntryError(zi, Len(env.zip.entries))
                            ELSE zi + 1
                   /\ UNCHANGED <<pc, results, has_macros>>
    /\ UNCHANGED <<env, started, caught, printed>>

\* scan_zip_for_macros, lines 74, 93: the loop is over, the with block closes
\* the archive, False is returned.
ZipLoopEnd ==
    /\ pc = "zip_loop"
    /\ zi > Len(env.zip.entries)
    /\ open' = open \ {ArchiveHandle}
    /\ Return(5, FALSE)
    /\ UNCHANGED <<env, started, caught, printed, opened, zi, readLog, log>>

\* main, lines 109-112
PrintVerdict ==
    /\ pc = "print"
    /\ printed' = Append(printed, VerdictLine(has_macros))
    /\ pc' = "done"
    /\ UNCHANGED <<env, started, results, caught, has_macros, open, opened,
                   zi, readLog, log>>

Next ==
    \/ ParseArgs
    \/ TriageCall
    \/ TriageExit
    \/ OledumpCall
    \/ OledumpExit
    \/ check_excel97_macros
    \/ run_vba_parser
    \/ ScanZipEnter
    \/ ZipEntry
    \/ ZipLoopEnd
    \/ PrintVerdict

\* One scan, from the command line to the verdict.
Spec == Init /\ [][Next]_vars

\* The program takes its next step whenever it has one: it is a single
\* sequential process that nothing but a subprocess it waits for can hold up.
FairSpec == Spec /\ WF_vars(Next)

\* scan_zip_for_macros called by main on a readable file that the first four
\* strategies found nothing in (both tools missing, not an OLE file, the
\* parser finding no macros at top level), over every archive of up to
\* MaxZipEntries entries.
ZipInit ==
    /\ env \in { MkEnv(TRUE, TRUE, AbsentTool, AbsentTool,
                       [isOle |-> "no", open |-> "raises", streams |-> {}],
                       "clean", z, f) :
                   z \in ZipEnvs(EntryKinds, MaxZipEntries), f \in BOOLEAN }
    /\ pc = "scan_zip"
    /\ started = <<1, 2, 3, 4>>
    /\ results = <<FALSE, FALSE, FALSE, FALSE>>
    /\ caught = {1, 2}
    /\ has_macros = FALSE
    /\ printed = <<>>
    /\ open = {}
    /\ opened = {ParserHandle(0)}
    /\ zi = 0
    /\ readLog = <<>>
    /\ log = <<>>

ZipNext == ScanZipEnter \/ ZipEntry \/ ZipLoopEnd \/ PrintVerdict

ZipSpec == ZipInit /\ [][ZipNext]_vars

----------------------------------------------------------------------------
(* What a strategy returns when called on its own, as a function of the     *)
(* file and the environment.                                               *)

\* scan_zip_for_macros, lines 75-89, 93: the value of the loop from entry i on
RECURSIVE zip_loop_value(_, _)
zip_loop_value(es, i) ==
    IF i > Len(es) THEN FALSE
    ELSE IF EntryOutcome(es[i]) = "macros" THEN TRUE
    ELSE zip_loop_value(es, i + 1)

\* The value strategy k returns on environment e; a tool that never answers
\* returns nothing, hence nothing positive.
OnItsOwn(k, e) ==
    CASE k = 1 -> e.triage.status \in {"ok", "abnormal"} /\ triage_found(e.triage.stdout)
      [] k = 2 -> e.oledump.status \in {"ok", "abnormal"} /\ oledump_found(e.oledump.stdout)
      [] k = 3 -> e.ole.isOle = "yes" /\ e.ole.open = "ok" /\ excel97_found(e.ole.streams)
      [] k = 4 -> e.vba = "macros"
      [] k = 5 -> e.zip.isZip /\ e.zip.open = "ok" /\ zip_loop_value(e.zip.entries, 1)

----------------------------------------------------------------------------
(* Vocabulary of the properties. *)

\* Strategy k has returned to main.
Returned(k) == \E j \in 1..Len(results) : started[j] = k

\* The value it returned.
ResultOf(k) == results[CHOOSE j \in 1..Len(results) : started[j] = k]

\* Strategy k could not complete: its tool is missing or exited abnormally,
\* the container is malformed, or the parser failed.
Failed(k) ==
    CASE k = 1 -> env.triage.status \in {"absent", "abnormal"}
      [] k = 2 -> env.oledump.status \in {"absent", "abnormal"}
      [] k = 3 -> env.ole.isOle = "raises" \/ (env.ole.isOle = "yes" /\ env.ole.open = "raises")
      [] k = 4 -> env.vba \in {"open_raises", "detect_raises"}
      [] k = 5 -> env.zip.isZip /\ env.zip.open = "raises"

\* s begins with the items of p
StartsWith(s, p) == Len(s) >= Len(p) /\ \A j \in 1..Len(p) : s[j] = p[j]

\* Entry e is an OLE-signed entry whose content the parser reports macros for.
EntryPositive(e) ==
    StartsWith(e.data, MAGIC) /\ e.read = "ok" /\ e.parser = "macros"

\* The scan is over: a verdict was printed, or argparse refused the command line.
Terminated == pc \in {"done", "usage_error"}

----------------------------------------------------------------------------
(* Properties. *)

\* C1: when the scan is done it has printed MACROS_PRESENT if some strategy,
\* called on its own on this file, returns True, and NO_MACROS otherwise,
\* whatever the other strategies do (failures included).
C1_VerdictIsOr ==
    pc = "done" =>
        printed = IF \E k \in 1..5 : OnItsOwn(k, env)
                  THEN <<"MACROS_PRESENT">> ELSE <<"NO_MACROS">>

\* C1 witness: only the OLE structural check is positive, both tools are
\* missing, the parser cannot open the file and the archive cannot be opened.
C1_Witness ==
    /\ pc = "done" /\ printed = <<"MACROS_PRESENT">>
    /\ OnItsOwn(3, env) /\ \A k \in {1, 2, 4, 5} : ~OnItsOwn(k, env)
    /\ env.triage.status = "absent" /\ env.oledump.status = "absent"
    /\ env.vba = "open_raises" /\ env.zip.isZip /\ env.zip.open = "raises"

\* C2: strategies are called in the order triage, oledump, excel97, VBA
\* parser, nested scanner, each after the previous one returned; a True
\* result is the last call of the scan and leads straight to the positive
\* verdict; a False result of one of the first four leads to the next
\* strategy; the negative verdict comes only after all five returned False;
\* a positive triage leaves the archive untouched.
C2_OrderAndShortCircuit ==
    /\ started = SubSeq(<<1, 2, 3, 4, 5>>, 1, Len(started))
    /\ Len(results) <= Len(started) /\ Len(started) <= Len(results) + 1
    /\ \A j \in 1..Len(results) : results[j] => j = Len(started)
    /\ (Len(results) > 0 /\ results[Len(results)])
          => pc \in {"print", "done"} /\ has_macros
    /\ (Len(results) = Len(started) /\ Len(results) \in 1..4 /\ ~results[Len(results)])
          => pc = <<"triage", "oledump", "excel97", "vba_parser", "scan_zip">>[Len(results) + 1]
    /\ (pc \in {"print", "done"} /\ ~has_macros)
          => started = <<1, 2, 3, 4, 5>> /\ results = <<FALSE, FALSE, FALSE, FALSE, FALSE>>
    /\ (Returned(1) /\ ResultOf(1))
          => started = <<1>> /\ readLog = <<>> /\ ArchiveHandle \notin opened

\* C2 witness: the triage tool reports macros on an archive holding a macro
\* entry; the scan is done and the archive was never read.
C2_Witness ==
    /\ pc = "done" /\ results = <<TRUE>>
    /\ OnItsOwn(5, env)
    /\ readLog = <<>> /\ ArchiveHandle \notin opened

\* C3: on a readable file, a strategy that failed (tool missing, tool exited
\* abnormally, malformed container, parser failure) returns a non-positive
\* result to main, main goes on with the next strategy, and a finished scan
\* has printed exactly one verdict line.
C3_FailuresYieldNonPositive ==
    /\ \A k \in 1..5 : (env.exists /\ Returned(k) /\ Failed(k)) =>
          /\ ~ResultOf(k)
          /\ k < 5 => (pc = <<"triage", "oledump", "excel97", "vba_parser", "scan_zip">>[k + 1]
                        \/ Len(started) > k)
    /\ pc = "done" => Len(printed) = 1

\* C4: on a path that does not exist no strategy is started and no verdict
\* is printed.
C4_MissingPathRejected ==
    (env.given /\ ~env.exists) => (started = <<>> /\ printed = <<>>)

\* C5: every scan terminates.
C5_ScanTerminates == <>Terminated

\* C6: the triage strategy returns True only when the tool exited normally
\* with a keyword in its output, and never when the tool is missing or
\* exited abnormally.
C6_TriagePositiveOnlyOnNormalExit ==
    Returned(1) =>
        /\ ResultOf(1) => (env.triage.status = "ok" /\ triage_found(env.triage.stdout))
        /\ env.triage.status \in {"absent", "abnormal"} => ~ResultOf(1)

\* C7: no VBA parser handle is open once the strategy, or the iteration on
\* the entry, that opened it is over.
C7_ParserHandlesClosed ==
    /\ Returned(4) => ParserHandle(0) \notin open
    /\ \A i \in 1..Len(env.zip.entries) :
          (pc # "zip_loop" \/ zi > i) => ParserHandle(i) \notin open

\* C8: the nested scanner reads entries in archive order; it returns True
\* if and only if the archive opens and holds an OLE-signed entry the parser
\* reports macros for; it then has read exactly the entries up to the first
\* such entry; otherwise, if the archive opened, it has read every entry;
\* an archive that fails to open gives False.
C8_NestedScan ==
    LET es == env.zip.entries
        positives == { i \in 1..Len(es) : EntryPositive(es[i]) }
        usable == env.zip.isZip /\ env.zip.open = "ok"
    IN  /\ readLog = [j \in 1..Len(readLog) |-> j]
        /\ Returned(5) =>
              /\ ResultOf(5) <=> (usable /\ positives # {})
              /\ (usable /\ positives # {}) =>
                    Len(readLog) = CHOOSE i \in positives : \A j \in positives : i <= j
              /\ (usable /\ positives = {}) => Len(readLog) = Len(es)
              /\ ~usable => readLog = <<>>

\* C8 witness: a three-entry archive whose first entry fails its full read,
\* whose second is a macro-bearing OLE entry, and whose third is never read.
C8_Witness ==
    /\ pc = "done" /\ Returned(5) /\ ResultOf(5)
    /\ Len(env.zip.entries) = 3
    /\ env.zip.entries[1] = OleBadCrc
    /\ env.zip.entries[2] = OleMacros
    /\ readLog = <<1, 2>>

\* C9: when the scan is done no handle opened during the scan is open.
C9_NoHandleOpenWhenDone ==
    pc = "done" => open = {}

\* C10: a strategy that could not complete returns a result other than the
\* one it returns when it completed and found nothing (False), and a scan
\* without a True result prints NO_MACROS.
C10_InconclusiveDistinct ==
    /\ \A k \in 1..5 : (Returned(k) /\ k \in caught) => ResultOf(k) # FALSE
    /\ (pc = "done" /\ \A j \in 1..Len(results) : ~results[j])
          => printed = <<"NO_MACROS">>

====
